---- MODULE Spec2Model ----
(***************************************************************************)
(* The lobby/session coordinator of JDRadatti/lightning.                   *)
(*                                                                         *)
(* PartyManager (internal/party.go, second file of the listing, lines 211  *)
(* to 657), Party (the PartyMember version), Client (internal/client.go)   *)
(* and Game (internal/party_manager.go lines 823 to 1004).                 *)
(*                                                                         *)
(* Objects are identified with their ids: the Client struct created by     *)
(* ServeWs for connection k has ID k and Secret k, the Party created by    *)
(* NewParty(pid) is object pid, the Game with ID g is object g.  The id 0  *)
(* stands for nil / the empty string.                                      *)
(*                                                                         *)
(* Four specifications share the handlers:                                 *)
(*   Spec       the coordinator as NewPartyManagerWithTimeouts starts it   *)
(*              (one goroutine in Run), its indices, parties and games;    *)
(*              a command is handled as soon as it is sent;                *)
(*   SpecFrames the same with every send channel and write pump;           *)
(*   SpecParty  one Party object under every sequence of method calls;     *)
(*   SpecTasks  the goroutines cmd/main.go starts, with pm.Commands as a   *)
(*              bounded channel.                                           *)
(* Time is counted in ticks: Abandoned[c] is time.Since(AbandonedAt).      *)
(***************************************************************************)
EXTENDS Integers, Sequences, FiniteSets, TLC

\* ------------------------------------------------------------------------
\* Bounds of the model
\* ------------------------------------------------------------------------
\* number of connections ever accepted by ServeWs
NC == 2
\* number of party ids NewPartyID can hand out
MaxParties == 2
\* number of game ids NewGameID can hand out
MaxGames == 2
\* number of frames a connection sends before its transport is lost, in
\* Spec, in SpecFrames, in SpecTasks and in SpecLive
MaxFrames == 3
MaxFramesTraced == 2
MaxFramesTasks == 1
MaxFramesLive == 2
\* the rounds of losing the transport and joining again one user takes
MaxRounds == 3
\* maxPartySize (6 in the source), scaled so that a full party is reachable
maxPartySize == 2
\* sendBufferSize (6 in the source), scaled so that a full queue is reachable
sendBufferSize == 2
\* partyManagerBufferSize (64 in the source), scaled
partyManagerBufferSize == 2
\* capacity of Game.commands (64 in the source), scaled
gameBufferSize == 2
\* PartyManager.AbandonmentTimeout and CleanupInterval, in ticks (injected)
AbandonmentTimeout == 1
CleanupInterval == 1

\* ------------------------------------------------------------------------
\* Program constants
\* ------------------------------------------------------------------------
minPartySize == 2

Conn == 1..NC
ClientID == Conn
PartyID == 1..MaxParties
GameID == 1..MaxGames
Nil == 0

VARIABLES
    untilTick,    \* ticks until the cleanup ticker fires next
    conn,         \* conn[k]: transport of connection k: "none", "open", "closed"
    sent,         \* sent[k]: number of frames connection k has sent so far
    client,       \* client[c]: the Client struct with ID c: [link, game]
    sendq,        \* sendq[k]: the send channel created for connection k
    wire,         \* wire[k]: what the write pump of k has put on the transport
    traced,       \* the connections whose send channel the specification follows
    budget,       \* budget[k]: the number of frames connection k sends
    called,       \* the Party method called last (SpecParty)
    Commands,     \* pm.Commands
    PublicQueue,  \* pm.PublicQueue
    GameEvents,   \* pm.GameEvents
    PublicParty,  \* pm.PublicParty (Nil or a party object)
    Parties,      \* pm.Parties: PartyID -> party object
    Members,      \* pm.Members: ClientID -> PartyID
    Abandoned,    \* pm.Abandoned: ClientID -> time.Since(AbandonedAt), in ticks
    Games,        \* pm.Games: GameID -> game object
    party,        \* the Party objects ever created
    game,         \* the Game objects ever created
    tasks         \* the goroutines running PartyManager.Run

pmVars == <<PublicParty, Parties, Members, Abandoned, Games, party, game,
            client, sendq, PublicQueue>>
vars == <<untilTick, conn, sent, client, sendq, wire, traced, budget, called,
          Commands, PublicQueue, GameEvents, PublicParty, Parties, Members, Abandoned,
          Games, party, game, tasks>>

\* ------------------------------------------------------------------------
\* Helpers
\* ------------------------------------------------------------------------
Perms(S) == {s \in [1..Cardinality(S) -> S] : \A i, j \in 1..Cardinality(S) : i # j => s[i] # s[j]}

\* the first element of the sequence order that lies in S (S non-empty)
FirstIn(order, S) == order[CHOOSE i \in 1..Len(order) : order[i] \in S /\ \A j \in 1..(i-1) : order[j] \notin S]

Remove(f, x) == [y \in (DOMAIN f) \ {x} |-> f[y]]
Put(f, x, v) == [y \in (DOMAIN f) \cup {x} |-> IF y = x THEN v ELSE f[y]]

\* ------------------------------------------------------------------------
\* Frames (message.go): the fields the payloads carry.  party on a
\* memberUpdate names the party that was broadcast to (the payload itself
\* carries only the member list).
\* ------------------------------------------------------------------------
Frame(t, p, m, c) == [type |-> t, party |-> p, members |-> m, code |-> c]
ConnectSuccessFrame == Frame("connectSuccess", Nil, {}, "")
QueueJoinedFrame == Frame("queueJoined", Nil, {}, "")
PartyJoinedFrame(pid) == Frame("partyJoined", pid, {}, "")
PartyLeftOtherFrame == Frame("partyLeft", Nil, {}, "removed")
PartyLeftFrame == Frame("partyLeft", Nil, {}, "self-initiated")
MemberUpdateFrame(pid, info) == Frame("memberUpdate", pid, info, "")
GameStartedFrame == Frame("gameStarted", Nil, {}, "")
GameOverFrame == Frame("gameOver", Nil, {}, "manualEnd")
ErrorFrame(code) == Frame("error", Nil, {}, code)

\* ------------------------------------------------------------------------
\* Party (the data structure)
\* ------------------------------------------------------------------------
\* NewParty
NewParty == [Members |-> <<>>, HostID |-> Nil, game |-> Nil]

\* Party.AddClient: Members maps the id to the member's IsConnected flag
AddClient(p, c) ==
    LET m == Put(p.Members, c, TRUE)
    IN [p EXCEPT !.Members = m,
                 !.HostID = IF Cardinality(DOMAIN m) = 1 THEN c ELSE @]

\* Party.RemoveClient without the "host left" branch
RemoveClientKeepsHost(p, cid, order) ==
    [p EXCEPT !.Members = Remove(p.Members, cid)]

\* Party.RemoveClient: the new host is the first member the map iteration
\* yields; order is the iteration order
RemoveClient(p, cid, order) ==
    LET m == Remove(p.Members, cid)
    IN [p EXCEPT !.Members = m,
                 !.HostID = IF @ = cid /\ DOMAIN m # {} THEN FirstIn(order, DOMAIN m) ELSE @]

\* Party.MarkClientDisconnected that leaves the flag as it is
MarkClientDisconnectedNot(p, cid) == p

MarkClientDisconnected(p, cid) ==
    IF cid \in DOMAIN p.Members THEN [p EXCEPT !.Members[cid] = FALSE] ELSE p

\* Party.MarkClientConnected that leaves the flag as it is
MarkClientConnectedNot(p, cid) == p

MarkClientConnected(p, cid) ==
    IF cid \in DOMAIN p.Members THEN [p EXCEPT !.Members[cid] = TRUE] ELSE p

\* Party.IsFull that never reports a full party
IsFullNever(p) == FALSE

IsFull(p) == Cardinality(DOMAIN p.Members) >= maxPartySize

IsEmpty(p) == Cardinality(DOMAIN p.Members) = 0

\* Party.getMemberInfo with IsHost set for every member
getMemberInfoAllHosts(p) ==
    {[id |-> c, isHost |-> TRUE, isConnected |-> p.Members[c]] : c \in DOMAIN p.Members}

getMemberInfo(p) ==
    {[id |-> c, isHost |-> (p.HostID = c), isConnected |-> p.Members[c]] : c \in DOMAIN p.Members}

\* ------------------------------------------------------------------------
\* The state the coordinator's handlers work on
\* ------------------------------------------------------------------------
World ==
    [PublicParty |-> PublicParty, Parties |-> Parties, Members |-> Members,
     Abandoned |-> Abandoned, Games |-> Games, party |-> party, game |-> game,
     client |-> client, sendq |-> sendq, PublicQueue |-> PublicQueue, conn |-> conn,
     traced |-> traced, offered |-> <<>>]

\* Client.SendMessage on a channel that takes every frame
SendMessageUnbounded(w, c, f) ==
    IF c = Nil THEN w
    ELSE LET ch == w.client[c].link
             w1 == [w EXCEPT !.offered = Append(@, [to |-> c, ch |-> ch, frame |-> f])]
         IN IF w.conn[ch] = "closed" \/ ch \notin w.traced THEN w1
            ELSE [w1 EXCEPT !.sendq[ch] = Append(@, f)]

\* Client.SendMessage: non-blocking send on the struct's send channel; the
\* frame is dropped when the channel is full.  c = Nil is the throw-away
\* &Client{ID: cid} of the cleanup sweep, whose send channel is nil.
\* The channel of a closed transport is never read again (the write pump
\* returns at its first write error): what is sent there is not kept, nor
\* is what is sent to a connection the specification does not follow.
\* offered lists the calls the handler at work has made so far: the struct,
\* the channel it held, the frame.
SendMessage(w, c, f) ==
    IF c = Nil THEN w
    ELSE LET ch == w.client[c].link
             w1 == [w EXCEPT !.offered = Append(@, [to |-> c, ch |-> ch, frame |-> f])]
         IN IF w.conn[ch] = "closed" \/ ch \notin w.traced THEN w1
            ELSE IF Len(w.sendq[ch]) < sendBufferSize
            THEN [w1 EXCEPT !.sendq[ch] = Append(@, f)]
            ELSE w1

\* Client.SendError that sends nothing
SendNoError(w, c, code) == w

\* Client.SendError
SendError(w, c, code) == SendMessage(w, c, ErrorFrame(code))

RECURSIVE SendAll(_, _, _)
SendAll(w, S, f) ==
    IF S = {} THEN w
    ELSE LET c == CHOOSE x \in S : TRUE
         IN SendAll(SendMessage(w, c, f), S \ {c}, f)

\* Party.broadcast: one SendMessage per member (all carry the same frame)
broadcast(w, p, f) == SendAll(w, DOMAIN w.party[p].Members, f)

\* the memberUpdate broadcast that follows every membership change
broadcastMemberUpdate(w, p) ==
    broadcast(w, p, MemberUpdateFrame(p, getMemberInfo(w.party[p])))

\* Game.SendCommand: dropped when the buffer is full or the loop has ended
\* (the send on the closed channel panics and is recovered)
GameSendCommand(w, g, cmd) ==
    IF w.game[g].state = "running" /\ Len(w.game[g].commands) < gameBufferSize
    THEN [w EXCEPT !.game[g].commands = Append(@, cmd)]
    ELSE w

GameCmd(t, c) == [type |-> t, client |-> c]

\* removeClientFromParty with the party left in pm.Parties
disbandKeepsParty(w, pid) ==
    [w EXCEPT !.PublicParty = IF @ # Nil /\ @ = pid THEN Nil ELSE @]

\* removeClientFromParty with the public reference left in place
disbandKeepsPublic(w, pid) ==
    [w EXCEPT !.Parties = Remove(@, pid)]

\* removeClientFromParty, the branch  if p.IsEmpty()
disband(w, pid) ==
    [w EXCEPT !.Parties = Remove(@, pid),
              !.PublicParty = IF @ # Nil /\ @ = pid THEN Nil ELSE @]

\* PartyManager.removeClientFromParty(c, cmt): c is the struct the frames go
\* to (Nil for the sweep's throw-away struct), cid its ID, leave is cmt # "".
removeClientFromParty(w, c, cid, leave, order) ==
    IF cid \notin DOMAIN w.Members
    THEN SendError(w, c, "notInSession")
    ELSE LET pid == w.Members[cid]
         IN IF pid \notin DOMAIN w.Parties
            THEN SendError([w EXCEPT !.Members = Remove(@, cid)], c, "partyNotFound")
            ELSE LET p == w.Parties[pid]
                     w1 == [w EXCEPT !.party[p] = RemoveClient(@, cid, order),
                                     !.Members = Remove(@, cid)]
                     w2 == IF leave THEN SendMessage(w1, c, PartyLeftFrame) ELSE w1
                 IN IF IsEmpty(w2.party[p])
                    THEN disband(w2, pid)
                    ELSE broadcastMemberUpdate(w2, p)

\* the reconnect branch with the entry left in pm.Abandoned
forgetNothing(w, clientID) == w

\* delete(pm.Abandoned, clientID)
forget(w, clientID) == [w EXCEPT !.Abandoned = Remove(@, clientID)]

\* handleCommand, case PartyManagerCommandAddClient, the reconnect branch:
\* pm.Abandoned[clientID] exists
reconnect(w, c, partyID, clientID, secret) ==
    IF w.Abandoned[clientID] < AbandonmentTimeout /\ secret = clientID
    THEN LET w1 == [w EXCEPT !.client[clientID].link = w.client[c].link]
         IN IF clientID \notin DOMAIN w1.Members
            THEN forget(SendError(w1, clientID, "sessionExpired"), clientID)
            ELSE IF w1.Members[clientID] \notin DOMAIN w1.Parties
            THEN SendError([forget(w1, clientID) EXCEPT !.Members = Remove(@, clientID)],
                           clientID, "partyNotFound")
            ELSE LET p == w1.Parties[w1.Members[clientID]]
                     w2 == [w1 EXCEPT !.party[p] = MarkClientConnected(@, clientID),
                                      !.client[clientID].game = w1.party[p].game]
                     w3 == SendMessage(w2, clientID, PartyJoinedFrame(partyID))
                     w4 == broadcastMemberUpdate(w3, p)
                 IN forget(w4, clientID)
    ELSE forget(SendError(w, c, "sessionExpired"), clientID)

\* handleCommand, case PartyManagerCommandAddClient, after the reconnect
\* branch: the already-in-party check, the public queue, the named party
join(w, c, partyID) ==
    LET w1 == IF c \in DOMAIN w.Members THEN SendError(w, c, "alreadyInParty") ELSE w
    IN IF partyID = Nil
       THEN IF Len(w1.PublicQueue) < partyManagerBufferSize
            THEN SendMessage([w1 EXCEPT !.PublicQueue = Append(@, c)], c, QueueJoinedFrame)
            ELSE SendError(w1, c, "queueFull")
       ELSE IF partyID \in DOMAIN w1.Parties
       THEN LET p == w1.Parties[partyID]
                w2 == [w1 EXCEPT !.party[p] = AddClient(@, c),
                                 !.Members = Put(@, c, partyID)]
                w3 == SendMessage(w2, c, PartyJoinedFrame(partyID))
            IN broadcastMemberUpdate(w3, p)
       ELSE SendError(w1, c, "partyNotFound")

\* handleCommand, case PartyManagerCommandAddClient
handleAddClient(w, c, partyID, clientID, secret) ==
    IF clientID \in DOMAIN w.Abandoned
    THEN reconnect(w, c, partyID, clientID, secret)
    ELSE join(w, c, partyID)

\* the loop over p.Members that assigns the game, assigning nothing
SetGameNobody(cl, S, g) == cl

RECURSIVE SetGame(_, _, _)
SetGame(cl, S, g) ==
    IF S = {} THEN cl
    ELSE LET c == CHOOSE x \in S : TRUE
         IN SetGame([cl EXCEPT ![c].game = g], S \ {c}, g)

\* NewGame + Game.Start: a running loop with an empty command channel
NewGame(clients) == [Clients |-> clients, commands |-> <<>>, state |-> "running"]

\* the id NewGameID / NewPartyID hands out next
FreshGame(w) == Cardinality(DOMAIN w.game) + 1
FreshParty(w) == Cardinality(DOMAIN w.party) + 1

\* StartGame without the entry in pm.Games
RegisterGameNowhere(games, g) == games

\* pm.Games[game.ID] = game
RegisterGame(games, g) == Put(games, g, g)

\* StartGame with no host check
NotHostNever(p, c) == FALSE

\* client.ID != p.HostID
NotHost(p, c) == c # p.HostID

\* StartGame with no size check
TooSmallNever(p) == FALSE

\* len(p.Members) < minPartySize
TooSmall(p) == Cardinality(DOMAIN p.Members) < minPartySize

\* handleCommand, case PartyManagerCommandStartGame
handleStartGame(w, c) ==
    IF c \notin DOMAIN w.Members THEN SendError(w, c, "notInSession")
    ELSE IF w.Members[c] \notin DOMAIN w.Parties THEN SendError(w, c, "partyNotFound")
    ELSE LET p == w.Parties[w.Members[c]]
             mem == DOMAIN w.party[p].Members
             g == FreshGame(w)
         IN IF NotHost(w.party[p], c) THEN SendError(w, c, "notPartyHost")
            ELSE IF TooSmall(w.party[p]) THEN SendError(w, c, "notEnoughMembers")
            ELSE LET w1 == [w EXCEPT !.game = Put(@, g, NewGame(mem)),
                                     !.party[p].game = g,
                                     !.Games = RegisterGame(@, g),
                                     !.client = SetGame(@, mem, g)]
                 IN GameSendCommand(w1, g, GameCmd("startGame", Nil))

\* handleCommand, case PartyManagerCommandDisconnectClient
handleDisconnect(w, c) ==
    LET w1 == IF c \in DOMAIN w.Members /\ w.Members[c] \in DOMAIN w.Parties
              THEN LET p == w.Parties[w.Members[c]]
                   IN broadcastMemberUpdate(
                          [w EXCEPT !.party[p] = MarkClientDisconnected(@, c)], p)
              ELSE w
    IN [w1 EXCEPT !.client[c].game = Nil,
                  !.Abandoned = Put(@, c, 0)]

\* one iteration of the sweep's loop body, for an expired entry cid
sweepOne(w, cid, hostOrder) ==
    LET w1 == [w EXCEPT !.Abandoned = Remove(@, cid)]
        inGame == /\ cid \in DOMAIN w1.Members
                  /\ w1.Members[cid] \in DOMAIN w1.Parties
                  /\ w1.party[w1.Parties[w1.Members[cid]]].game # Nil
        w2 == IF inGame
              THEN GameSendCommand(w1, w1.party[w1.Parties[w1.Members[cid]]].game,
                                   GameCmd("clientDisconnect", cid))
              ELSE w1
        order == IF cid \in DOMAIN w2.Members /\ w2.Members[cid] \in PartyID
                 THEN hostOrder[w2.Members[cid]] ELSE hostOrder[1]
    IN removeClientFromParty(w2, Nil, cid, FALSE, order)

\* handleCommand, case PartyManagerCommandCleanup: the range over
\* pm.Abandoned visits the entries in the order iter
RECURSIVE sweep(_, _, _)
sweep(w, iter, hostOrder) ==
    IF iter = <<>> THEN w
    ELSE LET cid == Head(iter)
         IN IF cid \in DOMAIN w.Abandoned /\ w.Abandoned[cid] > AbandonmentTimeout
            THEN sweep(sweepOne(w, cid, hostOrder), Tail(iter), hostOrder)
            ELSE sweep(w, Tail(iter), hostOrder)

\* handleQueueJoin with the memberUpdate broadcast before partyJoined
handleQueueJoinUpdateFirst(w, c) ==
    LET fresh == FreshParty(w)
        w1 == IF w.PublicParty = Nil \/ IsFull(w.party[w.PublicParty])
              THEN [w EXCEPT !.party = Put(@, fresh, NewParty),
                             !.PublicParty = fresh,
                             !.Parties = Put(@, fresh, fresh)]
              ELSE w
        p == w1.PublicParty
        w2 == [w1 EXCEPT !.party[p] = AddClient(@, c),
                         !.Members = Put(@, c, p)]
    IN SendMessage(broadcastMemberUpdate(w2, p), c, PartyJoinedFrame(p))

\* handleQueueJoin
handleQueueJoin(w, c) ==
    LET fresh == FreshParty(w)
        w1 == IF w.PublicParty = Nil \/ IsFull(w.party[w.PublicParty])
              THEN [w EXCEPT !.party = Put(@, fresh, NewParty),
                             !.PublicParty = fresh,
                             !.Parties = Put(@, fresh, fresh)]
              ELSE w
        p == w1.PublicParty
        w2 == [w1 EXCEPT !.party[p] = AddClient(@, c),
                         !.Members = Put(@, c, p)]
        w3 == SendMessage(w2, c, PartyJoinedFrame(p))
    IN broadcastMemberUpdate(w3, p)

\* handleGameEvent
handleGameEvent(w, evt) ==
    IF evt.type = "gameEnded" /\ evt.game \in DOMAIN w.Games
    THEN [w EXCEPT !.client = SetGame(@, w.game[w.Games[evt.game]].Clients, Nil)]
    ELSE w

\* the commands clients and the ticker put on pm.Commands
Cmd(t, c, pid, cid, sec) == [type |-> t, client |-> c, partyID |-> pid, clientID |-> cid, secret |-> sec]

\* PartyManager.handleCommand
handleCommand(w, cmd, iter, hostOrder) ==
    CASE cmd.type = "addClient" -> handleAddClient(w, cmd.client, cmd.partyID, cmd.clientID, cmd.secret)
      [] cmd.type = "removeClient" -> removeClientFromParty(w, cmd.client, cmd.client, TRUE, hostOrder[1])
      [] cmd.type = "startGame" -> handleStartGame(w, cmd.client)
      [] cmd.type = "clientDisconnected" -> handleDisconnect(w, cmd.client)
      [] cmd.type = "cleanUp" -> sweep(w, iter, hostOrder)

\* ------------------------------------------------------------------------
\* Initial state: NewPartyManagerWithTimeouts has returned, no connection yet
\* ------------------------------------------------------------------------
InitWith(tr, fr, tk, pt) ==
    /\ untilTick = CleanupInterval
    /\ conn = [k \in Conn |-> "none"]
    /\ sent = [k \in Conn |-> 0]
    /\ client = [c \in ClientID |-> [link |-> c, game |-> Nil]]
    /\ sendq = [k \in Conn |-> <<>>]
    /\ wire = [k \in Conn |-> [joined |-> {}, early |-> {}]]
    /\ traced = tr
    /\ budget = fr
    /\ called = <<>>
    /\ Commands = <<>>
    /\ PublicQueue = <<>>
    /\ GameEvents = <<>>
    /\ PublicParty = Nil
    /\ Parties = <<>>
    /\ Members = <<>>
    /\ Abandoned = <<>>
    /\ Games = <<>>
    /\ party = pt
    /\ game = <<>>
    /\ tasks = tk

\* the coordinator as NewPartyManagerWithTimeouts starts it: one goroutine
\* in Run, one in cleanupAbandoned
Init == InitWith({}, [k \in Conn |-> MaxFrames], <<>>, <<>>)

\* a Party object nothing refers to any more is garbage: its fields are
\* not told apart
Collect(w) ==
    [w EXCEPT !.party = [p \in DOMAIN w.party |->
         IF p = w.PublicParty \/ \E pid \in DOMAIN w.Parties : w.Parties[pid] = p
         THEN w.party[p] ELSE NewParty]]

\* the handlers' result becomes the next state
Apply(w0) ==
    LET w == Collect(w0)
    IN /\ PublicParty' = w.PublicParty
       /\ Parties' = w.Parties
       /\ Members' = w.Members
       /\ Abandoned' = w.Abandoned
       /\ Games' = w.Games
       /\ party' = w.party
       /\ game' = w.game
       /\ client' = w.client
       /\ sendq' = w.sendq
       /\ PublicQueue' = w.PublicQueue

\* the entries the sweep removes
Expired(w) == {c \in DOMAIN w.Abandoned : w.Abandoned[c] > AbandonmentTimeout}

\* what handleCommand makes of cmd, for every order the map iterations of
\* the handler can take
CommandResults(w, cmd) ==
    IF cmd.type = "cleanUp"
    THEN IF Expired(w) = {} THEN {w}
         ELSE {handleCommand(w, cmd, iter, ho) :
                  iter \in Perms(Expired(w)), ho \in [PartyID -> Perms(ClientID)]}
    ELSE IF cmd.type = "removeClient"
    THEN {handleCommand(w, cmd, <<>>, [p \in PartyID |-> o]) : o \in Perms(ClientID)}
    ELSE {handleCommand(w, cmd, <<>>, <<>>)}

\* pm.SendCommand(cmd), and the Run loop's  case cmd := <-pm.Commands:
\* pm.handleCommand(cmd).  The command is handled before the next one is
\* sent, so pm.Commands is empty between two steps.
Deliver(cmd) ==
    /\ Commands = <<>>
    /\ \E w \in CommandResults(World, cmd) : Apply(w)
    /\ UNCHANGED Commands

\* ------------------------------------------------------------------------
\* Client endpoint (client.go)
\* ------------------------------------------------------------------------
\* ServeWs: the struct, its pumps, and connectSuccess
Connect(k) ==
    /\ conn[k] = "none"
    /\ \A j \in Conn : j < k => conn[j] # "none"
    /\ conn' = [conn EXCEPT ![k] = "open"]
    /\ Apply(SendMessage([World EXCEPT !.client[k] = [link |-> k, game |-> Nil],
                                       !.conn[k] = "open"],
                         k, ConnectSuccessFrame))
    /\ UNCHANGED <<untilTick, sent, wire, traced, budget, called, Commands, GameEvents, tasks>>

\* the read pump of connection k has a frame to dispatch
CanRead(k) == conn[k] = "open" /\ sent[k] < budget[k]

\* the join payloads: partyId, clientId and secret, each possibly empty
JoinPayloads(k) ==
    {Cmd("addClient", k, pid, cid, sec) :
        pid \in PartyID \cup {Nil}, cid \in (ClientID \ {k}) \cup {Nil}, sec \in ClientID \cup {Nil}}

\* readPump, case ClientMessageJoin, for the payload that makes cmd
ReadJoinOf(k, cmd) ==
    /\ CanRead(k)
    /\ Deliver(cmd)
    /\ sent' = [sent EXCEPT ![k] = @ + 1]
    /\ UNCHANGED <<untilTick, conn, wire, traced, budget, called, GameEvents, tasks>>

\* readPump, case ClientMessageJoin
ReadJoin(k) ==
    \E cmd \in JoinPayloads(k) :
        /\ cmd.secret \in {Nil, cmd.clientID}
        /\ ReadJoinOf(k, cmd)

\* readPump, case ClientMessageLeave
ReadLeave(k) ==
    /\ CanRead(k)
    /\ Deliver(Cmd("removeClient", k, Nil, Nil, Nil))
    /\ sent' = [sent EXCEPT ![k] = @ + 1]
    /\ UNCHANGED <<untilTick, conn, wire, traced, budget, called, GameEvents, tasks>>

\* readPump, case ClientMessageStartGame (while NewGameID has ids left)
ReadStartGame(k) ==
    /\ CanRead(k)
    /\ Cardinality(DOMAIN game) < MaxGames
    /\ Deliver(Cmd("startGame", k, Nil, Nil, Nil))
    /\ sent' = [sent EXCEPT ![k] = @ + 1]
    /\ UNCHANGED <<untilTick, conn, wire, traced, budget, called, GameEvents, tasks>>

\* the playerAction case with no error frame for a client without a game
playerActionSilent(w, k) ==
    IF w.client[k].game = Nil
    THEN w
    ELSE GameSendCommand(w, w.client[k].game, GameCmd("playerAction", k))

\* readPump, the body of case ClientMessagePlayerAction: c.game is read
\* under the mutex; nil sends the error, otherwise game.SendCommand
playerAction(w, k) ==
    IF w.client[k].game = Nil
    THEN SendError(w, k, "notInGame")
    ELSE GameSendCommand(w, w.client[k].game, GameCmd("playerAction", k))

\* readPump, case ClientMessagePlayerAction
ReadPlayerAction(k) ==
    /\ CanRead(k)
    /\ Apply(playerAction(World, k))
    /\ sent' = [sent EXCEPT ![k] = @ + 1]
    /\ UNCHANGED <<untilTick, conn, wire, traced, budget, called, Commands, GameEvents, tasks>>

\* the frames that do not decode: an outer frame that is no ClientMessage,
\* a payload that does not fit its type, a type the server does not know
BadFrame == {"malformedFrame", "badPayload", "unknownType"}

\* c.conn.ReadJSON(&msg) returns an error: the transport failed, or the
\* frame is no JSON encoding of a ClientMessage
ReadJSONFails(f) == f \in {"transportError", "malformedFrame"}

\* readPump, one turn of the loop on a frame that does not decode: an error
\* of ReadJSON breaks the loop (the deferred function then reports the
\* disconnect and closes the transport); an error of UnmarshalClientMessage
\* and the default case of the switch send invalidRequest and continue
readBad(w, k, f) ==
    IF ReadJSONFails(f)
    THEN [w |-> [w EXCEPT !.conn[k] = "closed", !.sendq[k] = <<>>], exits |-> TRUE]
    ELSE [w |-> SendError(w, k, "invalidRequest"), exits |-> FALSE]

\* readPump: a frame UnmarshalClientMessage rejects, or an unknown type
ReadInvalid(k) ==
    /\ CanRead(k)
    /\ \E f \in BadFrame : ~readBad(World, k, f).exits /\ Apply(readBad(World, k, f).w)
    /\ sent' = [sent EXCEPT ![k] = @ + 1]
    /\ UNCHANGED <<untilTick, conn, wire, traced, budget, called, Commands, GameEvents, tasks>>

\* readPump: ReadJSON fails; the deferred function reports the disconnect
ReadError(k) ==
    /\ conn[k] = "open"
    /\ conn' = [conn EXCEPT ![k] = "closed"]
    /\ \E f \in BadFrame \cup {"transportError"} :
           /\ readBad(World, k, f).exits
           /\ \E w \in CommandResults(readBad(World, k, f).w,
                                       Cmd("clientDisconnected", k, Nil, Nil, Nil)) : Apply(w)
    /\ sent' = [sent EXCEPT ![k] = 0]
    /\ UNCHANGED <<untilTick, wire, traced, budget, called, Commands, GameEvents, tasks>>

\* the client ids whose struct writes to connection k
BoundTo(k) == {c \in ClientID : client[c].link = k}

\* what the transport of a connection has carried, after one more frame
Written(w, f, ids) ==
    [joined |-> IF f.type = "partyJoined" THEN w.joined \cup {f.party} ELSE w.joined,
     early |-> IF /\ f.type = "memberUpdate"
                  /\ \E m \in f.members : m.id \in ids
                  /\ f.party \notin w.joined
               THEN w.early \cup {f.party} ELSE w.early]

\* writePump: one frame from the send channel to the transport
WritePump(k) ==
    /\ conn[k] = "open"
    /\ sendq[k] # <<>>
    /\ wire' = [wire EXCEPT ![k] = Written(@, Head(sendq[k]), BoundTo(k))]
    /\ sendq' = [sendq EXCEPT ![k] = Tail(@)]
    /\ UNCHANGED <<untilTick, conn, sent, client, traced, budget, called, Commands,
                   PublicQueue, GameEvents, PublicParty, Parties, Members, Abandoned,
                   Games, party, game, tasks>>

\* ------------------------------------------------------------------------
\* Game (its own loop)
\* ------------------------------------------------------------------------
GameEvent(t, g) == [type |-> t, game |-> g]

\* Game.broadcast
gameBroadcast(w, g, f) == SendAll(w, w.game[g].Clients, f)

\* Game.handleCommand, case GameCommandEndGame; the loop returns
gameEnd(w, g) == [gameBroadcast(w, g, GameOverFrame) EXCEPT !.game[g].state = "ended"]

\* Game.handleCommand: the new world and the event sent to pm.GameEvents
gameHandle(w, g, cmd) ==
    CASE cmd.type = "startGame" ->
            [w |-> gameBroadcast(w, g, GameStartedFrame), evt |-> "gameStarted"]
      [] cmd.type = "endGame" ->
            [w |-> gameEnd(w, g), evt |-> "gameEnded"]
      [] cmd.type = "playerAction" ->
            [w |-> w, evt |-> ""]
      [] cmd.type = "clientDisconnect" ->
            LET w1 == [w EXCEPT !.game[g].Clients = @ \ {cmd.client}]
            IN IF Cardinality(w1.game[g].Clients) < minPartySize
               THEN [w |-> gameEnd(w1, g), evt |-> "gameEnded"]
               ELSE [w |-> w1, evt |-> ""]

\* Game.Run: one command off the channel through Game.handleCommand
GameStep(g) ==
    /\ g \in DOMAIN game
    /\ game[g].state = "running"
    /\ game[g].commands # <<>>
    /\ LET r == gameHandle([World EXCEPT !.game[g].commands = Tail(@)], g,
                           Head(game[g].commands))
       IN /\ r.evt # "" => Len(GameEvents) < partyManagerBufferSize
          /\ Apply(r.w)
          /\ GameEvents' = IF r.evt # "" THEN Append(GameEvents, GameEvent(r.evt, g))
                           ELSE GameEvents
    /\ UNCHANGED <<untilTick, conn, sent, wire, traced, budget, called, Commands, tasks>>

\* ------------------------------------------------------------------------
\* Coordinator (PartyManager.Run) and the cleanup ticker
\* ------------------------------------------------------------------------
\* a party id is left if handleQueueJoin needs one
PartyIdLeft ==
    (PublicParty = Nil \/ IsFull(party[PublicParty])) => Cardinality(DOMAIN party) < MaxParties

\* case c := <-pm.PublicQueue: pm.handleQueueJoin(c)
RunQueueJoin ==
    /\ PublicQueue # <<>>
    /\ PartyIdLeft
    /\ Apply(handleQueueJoin([World EXCEPT !.PublicQueue = Tail(@)], Head(PublicQueue)))
    /\ UNCHANGED <<untilTick, conn, sent, wire, traced, budget, called, Commands, GameEvents, tasks>>

\* case evt := <-pm.GameEvents: pm.handleGameEvent(evt)
RunGameEvent ==
    /\ GameEvents # <<>>
    /\ Apply(handleGameEvent(World, Head(GameEvents)))
    /\ GameEvents' = Tail(GameEvents)
    /\ UNCHANGED <<untilTick, conn, sent, wire, traced, budget, called, Commands, tasks>>

\* cleanupAbandoned: the ticker fires every CleanupInterval and the sweep runs
TickerFire ==
    /\ untilTick = 0
    /\ untilTick' = CleanupInterval
    /\ Deliver(Cmd("cleanUp", Nil, Nil, Nil, Nil))
    /\ UNCHANGED <<conn, sent, wire, traced, budget, called, GameEvents, tasks>>

\* ages above AgeCap are not told apart
AgeCap == AbandonmentTimeout + CleanupInterval + 1

\* one tick of time passes: every abandoned entry is one tick older
Tick ==
    /\ untilTick > 0
    /\ untilTick' = untilTick - 1
    /\ Abandoned' = [c \in DOMAIN Abandoned |->
                        IF Abandoned[c] < AgeCap THEN Abandoned[c] + 1 ELSE AgeCap]
    /\ UNCHANGED <<conn, sent, client, sendq, wire, traced, budget, called, Commands,
                   PublicQueue, GameEvents, PublicParty, Parties, Members, Games, party,
                   game, tasks>>

Next ==
    \/ \E k \in Conn : Connect(k)
    \/ \E k \in Conn : ReadJoin(k)
    \/ \E k \in Conn : ReadLeave(k)
    \/ \E k \in Conn : ReadStartGame(k)
    \/ \E k \in Conn : ReadPlayerAction(k)
    \/ \E k \in Conn : ReadInvalid(k)
    \/ \E k \in Conn : ReadError(k)
    \/ \E g \in GameID : GameStep(g)
    \/ RunQueueJoin
    \/ RunGameEvent
    \/ TickerFire
    \/ Tick

\* The coordinator's indices, the parties, the games and the clients' game
\* references; no send channel is followed.
Spec == Init /\ [][Next]_vars

\* The same, with every connection's send channel and write pump.
InitFrames == InitWith(Conn, [k \in Conn |-> MaxFramesTraced], <<>>, <<>>)

NextFrames ==
    \/ Next
    \/ \E k \in Conn : WritePump(k)

SpecFrames == InitFrames /\ [][NextFrames]_vars

\* the steps of TickerFire, RunQueueJoin and RunGameEvent, told by what
\* they do to the ticker's phase and to the two channels
TickerFires == untilTick = 0 /\ untilTick' = CleanupInterval
QueueTaken == PublicQueue # <<>> /\ PublicQueue' = Tail(PublicQueue)
EventTaken == GameEvents # <<>> /\ GameEvents' = Tail(GameEvents)

\* Spec under fair scheduling: time passes, the ticker fires and its sweep
\* is handled, and the coordinator's loop takes what its channels hold.
SpecFair ==
    /\ Spec
    /\ WF_vars(Tick)
    /\ WF_untilTick(TickerFires)
    /\ WF_PublicQueue(QueueTaken)
    /\ WF_GameEvents(EventTaken)

\* The same program with fewer frames per connection, under fair
\* scheduling of the ticker, the coordinator's loop and every game's loop.
InitLive == InitWith({}, [k \in Conn |-> MaxFramesLive], <<>>, <<>>)

SpecLive ==
    /\ InitLive
    /\ [][Next]_vars
    /\ WF_vars(Tick)
    /\ WF_untilTick(TickerFires)
    /\ WF_PublicQueue(QueueTaken)
    /\ WF_GameEvents(EventTaken)
    /\ \A g \in GameID : WF_vars(GameStep(g))

\* ------------------------------------------------------------------------
\* One user that keeps reconnecting (TestRapidReconnectAttempts): the first
\* connection joins the public queue; then, round after round, the current
\* transport is lost and the next connection sends a join that names the
\* first connection's client id and secret and its party, all inside the
\* grace window (no time passes).
\* ------------------------------------------------------------------------
RoundConn == 1..(MaxRounds + 1)

\* the user's client id: the one ServeWs gave its first connection
RoundUser == 1

InitRounds ==
    /\ untilTick = CleanupInterval
    /\ conn = [k \in RoundConn |-> "none"]
    /\ sent = [k \in RoundConn |-> 0]
    /\ client = [c \in RoundConn |-> [link |-> c, game |-> Nil]]
    /\ sendq = [k \in RoundConn |-> <<>>]
    /\ wire = [k \in RoundConn |-> [joined |-> {}, early |-> {}]]
    /\ traced = RoundConn
    /\ budget = [k \in RoundConn |-> 1]
    /\ called = <<>>
    /\ Commands = <<>>
    /\ PublicQueue = <<>>
    /\ GameEvents = <<>>
    /\ PublicParty = Nil
    /\ Parties = <<>>
    /\ Members = <<>>
    /\ Abandoned = <<>>
    /\ Games = <<>>
    /\ party = <<>>
    /\ game = <<>>
    /\ tasks = <<>>

\* the user's first join: the public queue
RoundFirstJoin == ReadJoinOf(RoundUser, Cmd("addClient", RoundUser, Nil, Nil, Nil))

\* the next connection is opened once the current transport is lost
RoundConnect(k) ==
    /\ k > 1 => conn[k - 1] = "closed"
    /\ Connect(k)

\* the join of a later connection: clientId, secret and partyId of the user
RoundRejoin(k) ==
    /\ k > 1
    /\ RoundUser \in DOMAIN Members
    /\ ReadJoinOf(k, Cmd("addClient", k, Members[RoundUser], RoundUser, RoundUser))

\* the current transport is lost once the user is in its party
RoundClose(k) ==
    /\ RoundUser \in DOMAIN Members
    /\ sent[k] = budget[k]
    /\ ReadError(k)

NextRounds ==
    \/ \E k \in RoundConn : RoundConnect(k)
    \/ RoundFirstJoin
    \/ RunQueueJoin
    \/ \E k \in RoundConn : RoundRejoin(k)
    \/ \E k \in RoundConn : RoundClose(k)
    \/ \E k \in RoundConn : WritePump(k)

SpecRounds == InitRounds /\ [][NextRounds]_vars

\* ------------------------------------------------------------------------
\* Joins alone, with one connection more than a party has seats: every
\* connection sends one join (the public queue or a party id) and no one
\* leaves (TestPartyAtMaxCapacity).
\* ------------------------------------------------------------------------
JoinConn == 1..(maxPartySize + 1)

InitJoins ==
    /\ untilTick = CleanupInterval
    /\ conn = [k \in JoinConn |-> "none"]
    /\ sent = [k \in JoinConn |-> 0]
    /\ client = [c \in JoinConn |-> [link |-> c, game |-> Nil]]
    /\ sendq = [k \in JoinConn |-> <<>>]
    /\ wire = [k \in JoinConn |-> [joined |-> {}, early |-> {}]]
    /\ traced = JoinConn
    /\ budget = [k \in JoinConn |-> 1]
    /\ called = <<>>
    /\ Commands = <<>>
    /\ PublicQueue = <<>>
    /\ GameEvents = <<>>
    /\ PublicParty = Nil
    /\ Parties = <<>>
    /\ Members = <<>>
    /\ Abandoned = <<>>
    /\ Games = <<>>
    /\ party = <<>>
    /\ game = <<>>
    /\ tasks = <<>>

\* readPump, case ClientMessageJoin, with no clientId in the payload
JoinOf(k) ==
    \E pid \in PartyID \cup {Nil} : ReadJoinOf(k, Cmd("addClient", k, pid, Nil, Nil))

NextJoins ==
    \/ \E k \in JoinConn : Connect(k)
    \/ \E k \in JoinConn : JoinOf(k)
    \/ RunQueueJoin
    \/ \E k \in JoinConn : WritePump(k)

SpecJoins == InitJoins /\ [][NextJoins]_vars

\* ------------------------------------------------------------------------
\* The Party data structure alone, under every sequence of calls
\* ------------------------------------------------------------------------
\* one Party object, and the clients its methods are called with
InitParty == InitWith({}, [k \in Conn |-> MaxFrames], <<>>, [p \in {1} |-> NewParty])

PartyClient == 1..(NC + 1)

\* the call, and what the party was when it was made
Call(op, p, c) ==
    [op |-> op, party |-> p, client |-> c, host |-> party[p].HostID,
     members |-> DOMAIN party[p].Members]

partyOnly == <<untilTick, conn, sent, client, sendq, wire, traced, budget, Commands,
               PublicQueue, GameEvents, PublicParty, Parties, Members, Abandoned,
               Games, game, tasks>>

PartyAddClient(p, c) ==
    /\ party' = [party EXCEPT ![p] = AddClient(@, c)]
    /\ called' = Call("AddClient", p, c)
    /\ UNCHANGED partyOnly

PartyRemoveClient(p, cid) ==
    /\ \E order \in Perms(PartyClient) :
          party' = [party EXCEPT ![p] = RemoveClient(@, cid, order)]
    /\ called' = Call("RemoveClient", p, cid)
    /\ UNCHANGED partyOnly

PartyMarkClientDisconnected(p, cid) ==
    /\ party' = [party EXCEPT ![p] = MarkClientDisconnected(@, cid)]
    /\ called' = Call("MarkClientDisconnected", p, cid)
    /\ UNCHANGED partyOnly

PartyMarkClientConnected(p, cid) ==
    /\ party' = [party EXCEPT ![p] = MarkClientConnected(@, cid)]
    /\ called' = Call("MarkClientConnected", p, cid)
    /\ UNCHANGED partyOnly

NextParty ==
    \/ \E p \in DOMAIN party, c \in PartyClient : PartyAddClient(p, c)
    \/ \E p \in DOMAIN party, c \in PartyClient : PartyRemoveClient(p, c)
    \/ \E p \in DOMAIN party, c \in PartyClient : PartyMarkClientDisconnected(p, c)
    \/ \E p \in DOMAIN party, c \in PartyClient : PartyMarkClientConnected(p, c)

SpecParty == InitParty /\ [][NextParty]_vars

\* ------------------------------------------------------------------------
\* The goroutines of the server binary: main (cmd/main.go) builds the
\* coordinator with NewPartyManager and then starts Run once more.  The
\* commands wait in pm.Commands until a goroutine in Run receives them; a
\* handler's writes take effect when it is entered.
\* ------------------------------------------------------------------------
RunTask == 1..2

Handling == {"handleCommand", "handleQueueJoin", "handleGameEvent"}

InitTasks ==
    InitWith({}, [k \in Conn |-> IF k = 1 THEN MaxFramesTasks + 1 ELSE MaxFramesTasks],
             [main |-> "NewPartyManager", run |-> [t \in RunTask |-> "none"]], <<>>)

\* PartyManager.SendCommand: the command is dropped when the buffer is full
SendCommand(q, cmd) == IF Len(q) < partyManagerBufferSize THEN Append(q, cmd) ELSE q

\* NewPartyManagerWithTimeouts:  go pm.Run()  and  go pm.cleanupAbandoned()
NewPartyManager ==
    /\ tasks.main = "NewPartyManager"
    /\ tasks' = [tasks EXCEPT !.main = "main", !.run[1] = "select"]
    /\ UNCHANGED <<untilTick, conn, sent, wire, traced, budget, called, Commands,
                   GameEvents, pmVars>>

\* main:  go pm.Run()
MainGoRun ==
    /\ tasks.main = "main"
    /\ tasks' = [tasks EXCEPT !.main = "ListenAndServe", !.run[2] = "select"]
    /\ UNCHANGED <<untilTick, conn, sent, wire, traced, budget, called, Commands,
                   GameEvents, pmVars>>

\* main: http.ListenAndServe accepts a connection
Accept(k) ==
    /\ tasks.main = "ListenAndServe"
    /\ Connect(k)

\* readPump: a command for the coordinator goes through pm.SendCommand
Post(k, cmd) ==
    /\ CanRead(k)
    /\ Commands' = SendCommand(Commands, cmd)
    /\ sent' = [sent EXCEPT ![k] = @ + 1]
    /\ UNCHANGED <<untilTick, conn, wire, traced, budget, called, GameEvents, tasks,
                   pmVars>>

PostJoin(k) ==
    \E cmd \in JoinPayloads(k) :
        /\ cmd.secret \in {Nil, cmd.clientID}
        /\ Post(k, cmd)

PostLeave(k) == Post(k, Cmd("removeClient", k, Nil, Nil, Nil))

\* the startGame commands not yet handled
Starting == {i \in 1..Len(Commands) : Commands[i].type = "startGame"}

PostStartGame(k) ==
    /\ Cardinality(DOMAIN game) + Cardinality(Starting) < MaxGames
    /\ Post(k, Cmd("startGame", k, Nil, Nil, Nil))

\* readPump: ReadJSON fails; the deferred function posts the disconnect
PostDisconnect(k) ==
    /\ conn[k] = "open"
    /\ conn' = [conn EXCEPT ![k] = "closed"]
    /\ Commands' = SendCommand(Commands, Cmd("clientDisconnected", k, Nil, Nil, Nil))
    /\ sent' = [sent EXCEPT ![k] = 0]
    /\ UNCHANGED <<untilTick, wire, traced, budget, called, GameEvents, tasks, pmVars>>

\* cleanupAbandoned: the ticker fires and the sweep is posted
TickerPost ==
    /\ tasks.main # "NewPartyManager"
    /\ untilTick = 0
    /\ untilTick' = CleanupInterval
    /\ Commands' = SendCommand(Commands, Cmd("cleanUp", Nil, Nil, Nil, Nil))
    /\ UNCHANGED <<conn, sent, wire, traced, budget, called, GameEvents, tasks, pmVars>>

\* Run of goroutine t, case cmd := <-pm.Commands: pm.handleCommand(cmd)
TaskCommand(t) ==
    /\ tasks.run[t] = "select"
    /\ Commands # <<>>
    /\ \E w \in CommandResults(World, Head(Commands)) : Apply(w)
    /\ Commands' = Tail(Commands)
    /\ tasks' = [tasks EXCEPT !.run[t] = "handleCommand"]
    /\ UNCHANGED <<untilTick, conn, sent, wire, traced, budget, called, GameEvents>>

\* Run of goroutine t, case c := <-pm.PublicQueue: pm.handleQueueJoin(c)
TaskQueueJoin(t) ==
    /\ tasks.run[t] = "select"
    /\ PublicQueue # <<>>
    /\ PartyIdLeft
    /\ Apply(handleQueueJoin([World EXCEPT !.PublicQueue = Tail(@)], Head(PublicQueue)))
    /\ tasks' = [tasks EXCEPT !.run[t] = "handleQueueJoin"]
    /\ UNCHANGED <<untilTick, conn, sent, wire, traced, budget, called, Commands,
                   GameEvents>>

\* Run of goroutine t, case evt := <-pm.GameEvents: pm.handleGameEvent(evt)
TaskGameEvent(t) ==
    /\ tasks.run[t] = "select"
    /\ GameEvents # <<>>
    /\ Apply(handleGameEvent(World, Head(GameEvents)))
    /\ GameEvents' = Tail(GameEvents)
    /\ tasks' = [tasks EXCEPT !.run[t] = "handleGameEvent"]
    /\ UNCHANGED <<untilTick, conn, sent, wire, traced, budget, called, Commands>>

\* the handler of goroutine t returns and the loop selects again
TaskReturn(t) ==
    /\ tasks.run[t] \in Handling
    /\ tasks' = [tasks EXCEPT !.run[t] = "select"]
    /\ UNCHANGED <<untilTick, conn, sent, wire, traced, budget, called, Commands,
                   GameEvents, pmVars>>

NextTasks ==
    \/ NewPartyManager
    \/ MainGoRun
    \/ \E k \in Conn : Accept(k)
    \/ \E k \in Conn : PostJoin(k)
    \/ \E k \in Conn : PostLeave(k)
    \/ \E k \in Conn : PostStartGame(k)
    \/ \E k \in Conn : PostDisconnect(k)
    \/ \E k \in Conn : ReadPlayerAction(k)
    \/ \E k \in Conn : ReadInvalid(k)
    \/ \E g \in GameID : GameStep(g)
    \/ TickerPost
    \/ Tick
    \/ \E t \in RunTask : TaskCommand(t)
    \/ \E t \in RunTask : TaskQueueJoin(t)
    \/ \E t \in RunTask : TaskGameEvent(t)
    \/ \E t \in RunTask : TaskReturn(t)

SpecTasks == InitTasks /\ [][NextTasks]_vars

\* ------------------------------------------------------------------------
\* Properties
\* ------------------------------------------------------------------------
\* the party object pm.Parties holds under pid
PartyOf(pid) == party[Parties[pid]]

\* the transport the struct with ID c writes to and reads from is lost
TransportLost(c) == conn[client[c].link] = "closed"

\* C1: at every moment at most one goroutine is inside handleCommand,
\* handleQueueJoin or handleGameEvent (SpecTasks).
SingleWriter == Cardinality({t \in RunTask : tasks.run[t] \in Handling}) <= 1

\* C2: for every client c and every party p in Parties, Members[c] = p if
\* and only if c is in p's member map.
MembersMatchParties ==
    \A c \in ClientID, pid \in DOMAIN Parties :
        (c \in DOMAIN Members /\ Members[c] = pid) <=> c \in DOMAIN PartyOf(pid).Members

\* C3: between two handlers every party in Parties has at least one member.
NoEmptyParty == \A pid \in DOMAIN Parties : ~IsEmpty(PartyOf(pid))

\* a party has been created and is no longer in Parties: its last member
\* was removed and the same handler deleted it
PartyDisbanded == \E p \in DOMAIN party : p \notin DOMAIN Parties

\* C4: every party with a non-empty member map has a current member as its
\* HostID, after every sequence of AddClient and RemoveClient calls
\* (SpecParty).
HostIsMember ==
    \A p \in DOMAIN party :
        ~IsEmpty(party[p]) => party[p].HostID \in DOMAIN party[p].Members

\* the host has just been removed from a party that keeps a member
HostRemoved ==
    /\ called # <<>>
    /\ called.op = "RemoveClient"
    /\ called.client = called.host
    /\ called.host \in called.members
    /\ ~IsEmpty(party[called.party])

\* C5: whenever PublicParty is non-nil, Parties[PublicParty.ID] exists and
\* is that same party.
PublicPartyListed ==
    PublicParty # Nil => PublicParty \in DOMAIN Parties /\ Parties[PublicParty] = PublicParty

\* a public party exists after an earlier party was disbanded
PublicPartyAfterDisband == PublicParty # Nil /\ PartyDisbanded

\* C6: whenever PublicParty is non-nil, between two handlers, the party it
\* references is not full and has no active game.
PublicPartyOpen ==
    PublicParty # Nil => ~IsFull(party[PublicParty]) /\ party[PublicParty].game = Nil

\* C7: for every party p in Parties whose game reference is non-nil, Games
\* has an entry under p.game.ID and that entry is p.game.
PartyGameRegistered ==
    \A pid \in DOMAIN Parties :
        PartyOf(pid).game # Nil =>
            PartyOf(pid).game \in DOMAIN Games /\ Games[PartyOf(pid).game] = PartyOf(pid).game

\* a party in Parties has a game
PartyInGame == \E pid \in DOMAIN Parties : PartyOf(pid).game # Nil

\* C8: every game in Games is the active game of exactly one party that
\* is in Parties.
GameOwnedByOneParty ==
    \A g \in DOMAIN Games :
        Cardinality({pid \in DOMAIN Parties : PartyOf(pid).game = Games[g]}) = 1

\* C9 as stated, its only-if half: a client id in Abandoned has lost its
\* transport and its grace window has not yet elapsed.
AbandonedInWindow ==
    \A c \in DOMAIN Abandoned : TransportLost(c) /\ Abandoned[c] < AbandonmentTimeout

\* C9: a client id is in Abandoned only if the transport of its struct is
\* lost and no other connection has been grafted onto the struct; the
\* entry stays, past the grace window too, until a sweep or a join that
\* names it removes it.
AbandonedOnlyIfLost ==
    \A c \in DOMAIN Abandoned : TransportLost(c) /\ client[c].link = c

\* an entry older than the grace window is still in the table
AbandonedPastWindow == \E c \in DOMAIN Abandoned : Abandoned[c] > AbandonmentTimeout

\* C10: on every connection, every memberUpdate that lists the client the
\* connection belongs to comes after a partyJoined for that party
\* (SpecFrames).
JoinedBeforeUpdate == \A k \in Conn : wire[k].early = {}

\* the frames of type t a handler has sent, from the world it returns
Offers(w, t) == {w.offered[i] : i \in {j \in 1..Len(w.offered) : w.offered[j].frame.type = t}}

\* a join read from connection k that names X with X's secret finds X in
\* Abandoned, inside the grace window, and a party under Members[X]
CanReconnect(k, X) ==
    /\ CanRead(k)
    /\ X \in DOMAIN Abandoned
    /\ Abandoned[X] < AbandonmentTimeout
    /\ X \in DOMAIN Members
    /\ Members[X] \in DOMAIN Parties

\* C11: an AddClient that names an abandoned client X inside its grace
\* window with the right secret, Members[X] being a party P in Parties,
\* removes X from Abandoned, sets X's IsConnected in P, leaves P's member
\* ids and Members as they are (nothing is added under the id of the new
\* connection), and sends every member of P a memberUpdate that lists X as
\* connected.
ReconnectRestores ==
    \A k \in Conn, X \in ClientID, pid \in PartyID \cup {Nil} :
        (X # k /\ CanReconnect(k, X)) =>
            LET w == handleAddClient(World, k, pid, X, X)
                p == Parties[Members[X]]
            IN /\ X \notin DOMAIN w.Abandoned
               /\ X \in DOMAIN w.party[p].Members
               /\ w.party[p].Members[X] = TRUE
               /\ DOMAIN w.party[p].Members = DOMAIN party[p].Members
               /\ w.Members = Members
               /\ w.Parties = Parties
               /\ \A m \in DOMAIN party[p].Members :
                      \E o \in Offers(w, "memberUpdate") :
                          /\ o.to = m
                          /\ \E i \in o.frame.members : i.id = X /\ i.isConnected

\* X is back: its struct writes to another connection's open transport, it
\* is a connected member of its party and Abandoned has no entry for it
Reconnected ==
    \E X \in DOMAIN Members :
        /\ client[X].link # X
        /\ conn[client[X].link] = "open"
        /\ Members[X] \in DOMAIN Parties
        /\ X \in DOMAIN PartyOf(Members[X]).Members
        /\ PartyOf(Members[X]).Members[X]
        /\ X \notin DOMAIN Abandoned

\* C12: after any number of rounds (the transport is lost, the next
\* connection joins with the user's client id, secret and party id, inside
\* the grace window) the user holds one membership: no id other than the
\* user's is in Members or in a party, and once a round's join is handled
\* the user is a member of its party with IsConnected set (SpecRounds).
OneMembership ==
    /\ DOMAIN Members \subseteq {RoundUser}
    /\ \A p \in DOMAIN party : DOMAIN party[p].Members \subseteq {RoundUser}
    /\ \A k \in RoundConn :
           (k > 1 /\ sent[k] > 0) =>
               /\ RoundUser \in DOMAIN Members
               /\ Members[RoundUser] \in DOMAIN Parties
               /\ RoundUser \in DOMAIN PartyOf(Members[RoundUser]).Members
               /\ PartyOf(Members[RoundUser]).Members[RoundUser]

\* the call SendMessage makes of a frame f for the struct c
Offer(c, f) == [to |-> c, ch |-> client[c].link, frame |-> f]

\* C13: an AddClient that names a client X in Abandoned past its grace
\* window, or with a secret that is not X's, sends the requester
\* error{sessionExpired} and nothing else, removes Abandoned[X] and changes
\* nothing else: X's struct keeps its transport and send channel, X's
\* IsConnected is as before, the requester is in no party and not in the
\* public queue because of it.
ReconnectRefused ==
    \A k \in Conn, X \in ClientID, pid \in PartyID \cup {Nil}, sec \in ClientID \cup {Nil} :
        (/\ X # k
         /\ CanRead(k)
         /\ X \in DOMAIN Abandoned
         /\ (Abandoned[X] >= AbandonmentTimeout \/ sec # X)) =>
            LET w == handleAddClient(World, k, pid, X, sec)
            IN /\ w.offered = <<Offer(k, ErrorFrame("sessionExpired"))>>
               /\ w.Abandoned = Remove(Abandoned, X)
               /\ w.client = client
               /\ w.sendq = sendq
               /\ w.party = party
               /\ w.Members = Members
               /\ w.Parties = Parties
               /\ w.PublicParty = PublicParty
               /\ w.PublicQueue = PublicQueue
               /\ w.Games = Games
               /\ w.game = game

\* a reconnect as X was refused: X still is a member of its party, not
\* connected, on its own lost transport, and Abandoned has no entry for it
ReconnectWasRefused ==
    \E X \in DOMAIN Members :
        /\ Members[X] \in DOMAIN Parties
        /\ X \in DOMAIN PartyOf(Members[X]).Members
        /\ ~PartyOf(Members[X]).Members[X]
        /\ client[X].link = X
        /\ TransportLost(X)
        /\ X \notin DOMAIN Abandoned

\* the world handleCommand finds when the DisconnectClient of connection k
\* arrives: the read pump has returned, the transport is closed
Lost(k) == [World EXCEPT !.conn[k] = "closed", !.sendq[k] = <<>>]

\* C14: DisconnectClient for a member c of a party p leaves Members, p's
\* member ids, p.HostID and Parties as they are; its only effects are that
\* c's IsConnected is false, c's game reference is nil, Abandoned[c] is
\* set to the current time, and one memberUpdate with p's members goes to
\* every member of p.
DisconnectKeepsSeat ==
    \A c \in Conn :
        (conn[c] = "open" /\ c \in DOMAIN Members /\ Members[c] \in DOMAIN Parties) =>
            LET w == handleDisconnect(Lost(c), c)
                p == Parties[Members[c]]
                q == [party[p] EXCEPT !.Members[c] = FALSE]
            IN /\ w.Members = Members
               /\ w.Parties = Parties
               /\ DOMAIN w.party[p].Members = DOMAIN party[p].Members
               /\ w.party[p].HostID = party[p].HostID
               /\ w.party = [party EXCEPT ![p] = q]
               /\ w.client = [client EXCEPT ![c].game = Nil]
               /\ w.Abandoned = Put(Abandoned, c, 0)
               /\ Len(w.offered) = Cardinality(DOMAIN q.Members)
               /\ \A m \in DOMAIN q.Members :
                      \E i \in 1..Len(w.offered) :
                          /\ w.offered[i].to = m
                          /\ w.offered[i].frame = MemberUpdateFrame(p, getMemberInfo(q))
               /\ w.PublicParty = PublicParty
               /\ w.PublicQueue = PublicQueue
               /\ w.Games = Games
               /\ w.game = game

\* the host of a party of two has just lost its transport: it still is a
\* member and the host, not connected, and Abandoned holds it with age 0
HostDisconnected ==
    \E c \in DOMAIN Abandoned :
        /\ Abandoned[c] = 0
        /\ c \in DOMAIN Members
        /\ Members[c] \in DOMAIN Parties
        /\ PartyOf(Members[c]).HostID = c
        /\ Cardinality(DOMAIN PartyOf(Members[c]).Members) = 2
        /\ c \in DOMAIN PartyOf(Members[c]).Members
        /\ ~PartyOf(Members[c]).Members[c]

\* c holds a seat: it is in Members or in the member map of a party
Seated(c) ==
    \/ c \in DOMAIN Members
    \/ \E pid \in DOMAIN Parties : c \in DOMAIN PartyOf(pid).Members

\* c is gone: no entry in Abandoned, no seat, and no party is left empty
Gone(c) == c \notin DOMAIN Abandoned /\ ~Seated(c) /\ NoEmptyParty

\* C15: a party member whose transport is lost (the loss is recorded in
\* Abandoned) is, unless a reconnect succeeds (its struct gets an open
\* transport again), eventually absent from Abandoned, from Members and
\* from its party's members, and a party it was the last member of is
\* absent from Parties (SpecFair).
AbandonedEventuallyGone ==
    \A c \in ClientID :
        (Seated(c) /\ TransportLost(c) /\ c \in DOMAIN Abandoned)
            ~> (Gone(c) \/ ~TransportLost(c))

\* C16: with time in ticks, every entry of Abandoned is younger than
\* AbandonmentTimeout + CleanupInterval, in every reachable state.
AbandonedYoung ==
    \A c \in DOMAIN Abandoned : Abandoned[c] < AbandonmentTimeout + CleanupInterval

\* the calls of SendMessage with a frame of type t, in the order made
OffersOf(w, t) == SelectSeq(w.offered, LAMBDA o : o.frame.type = t)

\* C17: RemoveClient (leave) for a member c of a party p removes c from
\* p's members and from Members and sends c exactly one
\* partyLeft{reason: self-initiated}; when p keeps members, each of them is
\* sent a memberUpdate that does not list c; when p is left empty it is
\* deleted from Parties and no memberUpdate is sent.  Sent means handed to
\* SendMessage; partyLeft is then in c's send channel unless the channel
\* was full (SpecFrames).
LeaveRemoves ==
    \A c \in Conn, order \in Perms(ClientID) :
        (CanRead(c) /\ c \in DOMAIN Members /\ Members[c] \in DOMAIN Parties) =>
            LET w == removeClientFromParty(World, c, c, TRUE, order)
                pid == Members[c]
                p == Parties[pid]
                rest == (DOMAIN party[p].Members) \ {c}
                left == OffersOf(w, "partyLeft")
            IN /\ DOMAIN w.party[p].Members = rest
               /\ c \notin DOMAIN w.Members
               /\ Len(left) = 1
               /\ left[1].to = c
               /\ left[1].frame.code = "self-initiated"
               /\ Len(sendq[c]) < sendBufferSize =>
                      SubSeq(w.sendq[c], 1, Len(sendq[c]) + 1) = Append(sendq[c], left[1].frame)
               /\ rest # {} =>
                      /\ pid \in DOMAIN w.Parties
                      /\ \A m \in rest :
                             \E o \in Offers(w, "memberUpdate") :
                                 /\ o.to = m
                                 /\ {i.id : i \in o.frame.members} = rest
               /\ rest = {} =>
                      /\ pid \notin DOMAIN w.Parties
                      /\ Offers(w, "memberUpdate") = {}

\* a client that has left: partyLeft is in the send channel of its open
\* connection and it is in no party
HasLeft ==
    \E c \in Conn :
        /\ conn[c] = "open"
        /\ ~Seated(c)
        /\ \E i \in 1..Len(sendq[c]) :
               sendq[c][i].type = "partyLeft" /\ sendq[c][i].code = "self-initiated"

\* the ids a memberUpdate frame lists with isHost set
HostsIn(f) == {i.id : i \in {j \in f.members : j.isHost}}

\* C18: every memberUpdate sent for a party with members lists exactly one
\* member with isHost set; and when the host leaves a party that keeps
\* members, the memberUpdate sent names one of the remaining members as
\* the only host (SpecFrames).
OneHostInUpdate ==
    /\ \A k \in Conn : \A i \in 1..Len(sendq[k]) :
           (sendq[k][i].type = "memberUpdate" /\ sendq[k][i].members # {}) =>
               /\ Cardinality(HostsIn(sendq[k][i])) = 1
               /\ Cardinality({j \in sendq[k][i].members : j.isHost}) = 1
    /\ \A c \in Conn, order \in Perms(ClientID) :
           (/\ CanRead(c)
            /\ c \in DOMAIN Members
            /\ Members[c] \in DOMAIN Parties
            /\ PartyOf(Members[c]).HostID = c
            /\ DOMAIN PartyOf(Members[c]).Members \ {c} # {}) =>
               LET w == removeClientFromParty(World, c, c, TRUE, order)
                   rest == DOMAIN PartyOf(Members[c]).Members \ {c}
               IN /\ Offers(w, "memberUpdate") # {}
                  /\ \A o \in Offers(w, "memberUpdate") :
                         \E h \in rest : HostsIn(o.frame) = {h}

\* m has been told that c is the host of its party and, after that, that m
\* itself is the host and the only member: the host c has left
HostHandedOver ==
    \E c, m \in Conn :
        /\ c # m
        /\ Len(sendq[m]) = 2
        /\ sendq[m][1].type = "memberUpdate"
        /\ HostsIn(sendq[m][1]) = {c}
        /\ sendq[m][2].type = "memberUpdate"
        /\ HostsIn(sendq[m][2]) = {m}
        /\ {i.id : i \in sendq[m][2].members} = {m}
        /\ \E i \in 1..Len(sendq[c]) : sendq[c][i].type = "partyLeft"

\* handleStartGame has left the coordinator's state, the parties, the games
\* and the clients as they were
NothingStarted(w) ==
    /\ w.game = game
    /\ w.Games = Games
    /\ w.party = party
    /\ w.client = client
    /\ w.Members = Members
    /\ w.Parties = Parties
    /\ w.PublicParty = PublicParty
    /\ w.PublicQueue = PublicQueue
    /\ w.Abandoned = Abandoned

\* the struct c has an error frame with this code in the channel it sends on
ErrorQueued(c, code) ==
    \E i \in 1..Len(sendq[client[c].link]) :
        /\ sendq[client[c].link][i].type = "error"
        /\ sendq[client[c].link][i].code = code

\* C19: StartGame from a member that is not the host of its party sends
\* that member error{notPartyHost} and nothing else, and changes nothing:
\* no game is created (so no gameStarted follows), Games and the party's
\* game reference are as before (SpecFrames).
StartByNonHostRefused ==
    \A c \in Conn :
        (/\ CanRead(c)
         /\ c \in DOMAIN Members
         /\ Members[c] \in DOMAIN Parties
         /\ PartyOf(Members[c]).HostID # c) =>
            LET w == handleStartGame(World, c)
            IN /\ Len(w.offered) = 1
               /\ w.offered[1].to = c
               /\ w.offered[1].frame.type = "error"
               /\ w.offered[1].frame.code = "notPartyHost"
               /\ NothingStarted(w)

\* a member that is not the host has asked for a game and holds the refusal
NonHostRefused ==
    \E c \in DOMAIN Members :
        /\ Members[c] \in DOMAIN Parties
        /\ PartyOf(Members[c]).HostID # c
        /\ ErrorQueued(c, "notPartyHost")

\* C20: StartGame from the host of a party with fewer than minPartySize
\* members sends error{notEnoughMembers} and creates no game; whatever
\* StartGame creates a game, the party had at least minPartySize members
\* then, and a game whose loop has not yet taken its startGame command
\* has at least minPartySize clients (SpecFrames).
StartNeedsQuorum ==
    /\ \A c \in Conn :
           (/\ CanRead(c)
            /\ c \in DOMAIN Members
            /\ Members[c] \in DOMAIN Parties
            /\ PartyOf(Members[c]).HostID = c
            /\ Cardinality(DOMAIN PartyOf(Members[c]).Members) < minPartySize) =>
               LET w == handleStartGame(World, c)
               IN /\ Len(w.offered) = 1
                  /\ w.offered[1].to = c
                  /\ w.offered[1].frame.type = "error"
                  /\ w.offered[1].frame.code = "notEnoughMembers"
                  /\ NothingStarted(w)
    /\ \A c \in Conn :
           LET w == handleStartGame(World, c)
           IN (CanRead(c) /\ w.game # game) =>
                  /\ c \in DOMAIN Members
                  /\ Members[c] \in DOMAIN Parties
                  /\ Cardinality(DOMAIN PartyOf(Members[c]).Members) >= minPartySize
    /\ \A g \in DOMAIN game :
           (game[g].commands # <<>> /\ Head(game[g].commands).type = "startGame") =>
               Cardinality(game[g].Clients) >= minPartySize

\* the host of a party of one has asked for a game and holds the refusal
LoneHostRefused ==
    \E c \in DOMAIN Members :
        /\ Members[c] \in DOMAIN Parties
        /\ PartyOf(Members[c]).HostID = c
        /\ DOMAIN PartyOf(Members[c]).Members = {c}
        /\ ErrorQueued(c, "notEnoughMembers")
        /\ game = <<>>

\* the loop of game g has not yet taken the startGame command
StartPending(g) ==
    /\ g \in DOMAIN game
    /\ game[g].commands # <<>>
    /\ Head(game[g].commands).type = "startGame"

\* StartGame from the host c of a party with at least minPartySize members
\* creates a game: it is in Games, it is the party's game, every member's
\* struct refers to it, its clients are the members, startGame is queued
StartCreates ==
    \A c \in Conn :
        (/\ CanRead(c)
         /\ c \in DOMAIN Members
         /\ Members[c] \in DOMAIN Parties
         /\ PartyOf(Members[c]).HostID = c
         /\ Cardinality(DOMAIN PartyOf(Members[c]).Members) >= minPartySize) =>
            LET w == handleStartGame(World, c)
                p == Parties[Members[c]]
                mem == DOMAIN party[p].Members
                new == (DOMAIN w.game) \ (DOMAIN game)
            IN /\ Cardinality(new) = 1
               /\ \A g \in new :
                      /\ g \in DOMAIN w.Games
                      /\ w.Games[g] = g
                      /\ w.party[p].game = g
                      /\ \A m \in mem : w.client[m].game = g
                      /\ w.game[g].Clients = mem
                      /\ w.game[g].state = "running"
                      /\ Len(w.game[g].commands) = 1
                      /\ w.game[g].commands[1].type = "startGame"

\* the loop that takes the startGame command sends gameStarted to every
\* client of the game
StartBroadcasts ==
    \A g \in GameID :
        StartPending(g) =>
            LET r == gameHandle([World EXCEPT !.game[g].commands = Tail(@)], g,
                                Head(game[g].commands))
            IN \A m \in game[g].Clients :
                   \E o \in Offers(r.w, "gameStarted") : o.to = m

\* C21: StartGame from the host of a party with at least minPartySize
\* members creates a game g that is registered in Games, is the party's
\* game and the game of every member's struct; and the game's loop
\* eventually takes the startGame command, which sends gameStarted to
\* every member (SpecLive).
StartGameStarts ==
    /\ []StartCreates
    /\ []StartBroadcasts
    /\ \A g \in GameID : StartPending(g) ~> ~StartPending(g)

\* a game was created for a party, and its loop has reported gameStarted
GameHasStarted ==
    \E pid \in DOMAIN Parties :
        /\ PartyOf(pid).game # Nil
        /\ PartyOf(pid).game \in DOMAIN Games
        /\ \A m \in DOMAIN PartyOf(pid).Members : client[m].game = PartyOf(pid).game
        /\ \E i \in 1..Len(GameEvents) :
               GameEvents[i] = GameEvent("gameStarted", PartyOf(pid).game)

\* C22: a join that names the id of a party already holding maxPartySize
\* members is refused with an error frame and adds no member; hence every
\* party has at most maxPartySize members in every reachable state
\* (SpecJoins).
FullPartyRefuses ==
    /\ \A k \in JoinConn, pid \in DOMAIN Parties :
           (CanRead(k) /\ IsFull(PartyOf(pid)) /\ k \notin DOMAIN PartyOf(pid).Members) =>
               LET w == handleAddClient(World, k, pid, Nil, Nil)
               IN /\ Offers(w, "error") # {}
                  /\ w.party[Parties[pid]].Members = PartyOf(pid).Members
    /\ \A pid \in DOMAIN Parties :
           Cardinality(DOMAIN PartyOf(pid).Members) <= maxPartySize

\* the party has a game whose loop is running
InGame(p) == p.game # Nil /\ game[p.game].state = "running"

\* C23: a join that names the id of a party with an active game is refused
\* with an error frame: it does not extend the party's member set.
InGameRefuses ==
    \A k \in Conn, pid \in DOMAIN Parties :
        (CanRead(k) /\ InGame(PartyOf(pid)) /\ k \notin DOMAIN PartyOf(pid).Members) =>
            LET w == handleAddClient(World, k, pid, Nil, Nil)
            IN /\ Offers(w, "error") # {}
               /\ DOMAIN w.party[Parties[pid]].Members = DOMAIN PartyOf(pid).Members

\* what handleQueueJoin makes of the client at the head of the public queue
Drained == handleQueueJoin([World EXCEPT !.PublicQueue = Tail(@)], Head(PublicQueue))

\* C24: when PublicParty holds maxPartySize members, the next client
\* drained from the public queue is placed in a newly created party with
\* an id no party has, that party becomes PublicParty and is in Parties,
\* and the client is its only member and its host (SpecJoins).
FullPublicPartyRollsOver ==
    (/\ PublicQueue # <<>>
     /\ PublicParty # Nil
     /\ Cardinality(DOMAIN party[PublicParty].Members) = maxPartySize) =>
        LET w == Drained
            c == Head(PublicQueue)
            new == w.PublicParty
        IN /\ new # PublicParty
           /\ new \notin DOMAIN Parties
           /\ new \notin DOMAIN party
           /\ new \in DOMAIN w.Parties
           /\ w.Parties[new] = new
           /\ DOMAIN w.party[new].Members = {c}
           /\ w.party[new].HostID = c
           /\ w.Members[c] = new
           /\ w.party[PublicParty] = party[PublicParty]
           /\ \A pid \in DOMAIN Parties : w.Parties[pid] = Parties[pid]

\* a full party, and a later public party whose only member and host came
\* from the public queue after the first party was full
RolledOver ==
    \E p, q \in DOMAIN Parties :
        /\ p # q
        /\ PublicParty = q
        /\ Cardinality(DOMAIN PartyOf(p).Members) = maxPartySize
        /\ \E c \in DOMAIN Members :
               /\ Members[c] = q
               /\ DOMAIN PartyOf(q).Members = {c}
               /\ PartyOf(q).HostID = c
               /\ c \notin DOMAIN PartyOf(p).Members

\* C25: a client drained from the public queue is never added to a party
\* with an active game: when PublicParty has an active game, a new party
\* is allocated, becomes PublicParty and receives the client.
QueueAvoidsGame ==
    (PublicQueue # <<>> /\ PublicParty # Nil /\ InGame(party[PublicParty])) =>
        LET w == Drained
            c == Head(PublicQueue)
        IN /\ w.PublicParty # PublicParty
           /\ w.PublicParty \notin DOMAIN party
           /\ c \in DOMAIN w.party[w.PublicParty].Members
           /\ DOMAIN w.party[PublicParty].Members = DOMAIN party[PublicParty].Members

\* the frames a handler has handed to SendMessage for the struct c, in the
\* order of the calls
FramesTo(w, c) ==
    LET os == SelectSeq(w.offered, LAMBDA o : o.to = c)
    IN [i \in 1..Len(os) |-> os[i].frame]

\* the client c waits in the public queue
Queued(c) == \E i \in 1..Len(PublicQueue) : PublicQueue[i] = c

\* a join with an empty partyId from a client X in no party, the public
\* queue having room, puts X at the end of the queue and sends X
\* queueJoined and nothing else; no party changes
QueueJoinQueues ==
    \A X \in Conn : \A cmd \in JoinPayloads(X) :
        (/\ CanRead(X)
         /\ cmd.partyID = Nil
         /\ cmd.clientID \notin DOMAIN Abandoned
         /\ X \notin DOMAIN Members
         /\ Len(PublicQueue) < partyManagerBufferSize) =>
            LET w == handleAddClient(World, X, cmd.partyID, cmd.clientID, cmd.secret)
            IN /\ w.PublicQueue = Append(PublicQueue, X)
               /\ Len(FramesTo(w, X)) = 1
               /\ FramesTo(w, X)[1].type = "queueJoined"
               /\ w.Members = Members
               /\ w.Parties = Parties
               /\ w.PublicParty = PublicParty

\* the coordinator that takes X from the public queue sends X
\* partyJoined{P} and then one memberUpdate of P that lists X, and nothing
\* else; P is in Parties, Members[X] = P and P is PublicParty
QueueJoinSeats ==
    (PublicQueue # <<>> /\ PartyIdLeft) =>
        LET w == Drained
            X == Head(PublicQueue)
            P == w.PublicParty
            fs == FramesTo(w, X)
        IN /\ P # Nil
           /\ P \in DOMAIN w.Parties
           /\ w.Parties[P] = P
           /\ w.Members[X] = P
           /\ X \in DOMAIN w.party[P].Members
           /\ Len(fs) = 2
           /\ fs[1].type = "partyJoined"
           /\ fs[1].party = P
           /\ fs[2].type = "memberUpdate"
           /\ fs[2].party = P
           /\ \E m \in fs[2].members : m.id = X /\ m.isConnected
           /\ w.PublicQueue = Tail(PublicQueue)

\* C26: a client X in no party that sends join with an empty partyId while
\* the public queue has room is sent queueJoined and waits in the queue;
\* the coordinator eventually takes it from the queue, and then sends it
\* partyJoined{P} followed by a memberUpdate listing X, with P in Parties,
\* Members[X] = P and PublicParty = P (SpecLive).  Sent means handed to
\* SendMessage.
QueueJoinOrder ==
    /\ []QueueJoinQueues
    /\ []QueueJoinSeats
    /\ \A X \in Conn : Queued(X) ~> ~Queued(X)

\* X has been taken from the public queue into the public party, of which
\* it is the host
QueueJoinDone ==
    \E X \in DOMAIN Members :
        /\ ~Queued(X)
        /\ sent[X] = 1
        /\ PublicParty # Nil
        /\ Members[X] = PublicParty
        /\ PublicParty \in DOMAIN Parties
        /\ party[PublicParty].HostID = X
        /\ X \in DOMAIN party[PublicParty].Members

\* a running game whose loop takes ClientDisconnect removes the client from
\* its clients; with fewer than minPartySize left it sends gameOver to each
\* client left, and to nobody else, reports gameEnded and its loop returns;
\* otherwise it keeps running and reports nothing
DisconnectEndsGame ==
    \A g \in DOMAIN game :
        (/\ game[g].state = "running"
         /\ game[g].commands # <<>>
         /\ Head(game[g].commands).type = "clientDisconnect") =>
            LET c == Head(game[g].commands).client
                r == gameHandle([World EXCEPT !.game[g].commands = Tail(@)], g,
                                Head(game[g].commands))
                left == game[g].Clients \ {c}
            IN /\ r.w.game[g].Clients = left
               /\ IF Cardinality(left) < minPartySize
                  THEN /\ r.evt = "gameEnded"
                       /\ r.w.game[g].state = "ended"
                       /\ {o.to : o \in Offers(r.w, "gameOver")} = left
                       /\ Len(r.w.offered) = Cardinality(left)
                  ELSE /\ r.evt = ""
                       /\ r.w.game[g].state = "running"
                       /\ r.w.offered = <<>>

\* the loop of an ended game takes no command
EndedGameIdle == \A g \in DOMAIN game : game[g].state = "ended" => ~ENABLED GameStep(g)

\* the loop of game g has returned
Ended(g) == g \in DOMAIN game /\ game[g].state = "ended"

\* the members of party pid whose struct has a transport
Present(pid) == {m \in DOMAIN PartyOf(pid).Members : ~TransportLost(m)}

\* the game g runs for a party that has lost members to a closed transport
\* and has fewer than minPartySize members with a transport
FewPresent(g) ==
    /\ g \in DOMAIN game
    /\ game[g].state = "running"
    /\ \E pid \in DOMAIN Parties :
           /\ PartyOf(pid).game = g
           /\ \E m \in DOMAIN PartyOf(pid).Members : TransportLost(m)
           /\ Cardinality(Present(pid)) < minPartySize

\* C27: a running game whose loop takes ClientDisconnect removes the
\* client and, with fewer than minPartySize clients left, sends gameOver
\* to the clients left, reports gameEnded and takes no further command,
\* and otherwise keeps running; and a game whose party stays, through lost
\* transports, with fewer than minPartySize members that have a transport
\* eventually ends (SpecLive).
LostMembersEndGame ==
    /\ []DisconnectEndsGame
    /\ []EndedGameIdle
    /\ \A g \in GameID : <>[]FewPresent(g) => <>Ended(g)

\* C28: once the coordinator has handled the gameEnded event of a game g,
\* g is not in Games, no party in Parties has g as its game (the owning
\* party is open again with the members it has), and the struct of every
\* member of the owning party has no game.
GameEndedCleansUp ==
    (GameEvents # <<>> /\ Head(GameEvents).type = "gameEnded") =>
        LET g == Head(GameEvents).game
            w == handleGameEvent(World, Head(GameEvents))
        IN /\ g \notin DOMAIN w.Games
           /\ \A pid \in DOMAIN Parties :
                  PartyOf(pid).game = g =>
                      /\ pid \in DOMAIN w.Parties
                      /\ w.party[w.Parties[pid]].game = Nil
                      /\ w.party[w.Parties[pid]].Members = PartyOf(pid).Members
                      /\ \A m \in DOMAIN PartyOf(pid).Members : w.client[m].game = Nil

\* the command channel of game g takes a command: its loop runs and the
\* channel has room
Takes(g) == game[g].state = "running" /\ Len(game[g].commands) < gameBufferSize

\* C29: a playerAction frame read from a client whose struct has no game
\* sends that client error{notInGame} and nothing else, and no game's
\* command channel changes; from a client whose struct has the game g it
\* sends no frame and hands g, and no other game, one playerAction command
\* carrying the client's id: the command is the last of g's channel when
\* the channel takes it (Game.SendCommand drops it when the channel is
\* full or g's loop has returned).
PlayerActionRouted ==
    \A k \in Conn :
        CanRead(k) =>
            LET w == playerAction(World, k)
                g == client[k].game
            IN IF g = Nil
               THEN /\ w.offered = <<Offer(k, ErrorFrame("notInGame"))>>
                    /\ w.game = game
               ELSE /\ w.offered = <<>>
                    /\ g \in DOMAIN game
                    /\ \A h \in DOMAIN game : h # g => w.game[h] = game[h]
                    /\ w.game[g].Clients = game[g].Clients
                    /\ w.game[g].state = game[g].state
                    /\ w.game[g].commands =
                           IF Takes(g)
                           THEN Append(game[g].commands, GameCmd("playerAction", k))
                           ELSE game[g].commands

\* a playerAction of a client in a game waits in the game's channel
PlayerActionQueued ==
    \E k \in Conn : \E g \in DOMAIN game :
        /\ client[k].game = g
        /\ \E i \in 1..Len(game[g].commands) :
               game[g].commands[i] = GameCmd("playerAction", k)

\* every send channel is followed and no write pump ever takes a frame:
\* the clients' transports are stalled
SpecStalled == InitFrames /\ [][Next]_vars

\* the frames the coordinator and the pumps send
SomeFrames ==
    {ConnectSuccessFrame, QueueJoinedFrame, PartyLeftFrame, GameStartedFrame, GameOverFrame}
        \cup {PartyJoinedFrame(p) : p \in PartyID}
        \cup {ErrorFrame(code) : code \in {"notInGame", "invalidRequest", "queueFull"}}
        \cup {MemberUpdateFrame(PublicParty, getMemberInfo(party[PublicParty])) :
                 x \in IF PublicParty = Nil THEN {} ELSE {1}}

\* the send channel of the struct c is followed, open and full
Full(c) ==
    /\ conn[client[c].link] = "open"
    /\ client[c].link \in traced
    /\ Len(sendq[client[c].link]) = sendBufferSize

\* SendMessage on a full channel returns with every channel and all the
\* coordinator's state as they were
FullQueueDrops ==
    \A c \in ClientID : \A f \in SomeFrames :
        Full(c) => [SendMessage(World, c, f) EXCEPT !.offered = <<>>] = World

\* no send channel holds more than its capacity
QueueBounded == \A k \in Conn : Len(sendq[k]) <= sendBufferSize

\* every run of a handler in S returns, with no channel above its capacity
Returns(S) ==
    /\ S # {}
    /\ \A w \in S : \A k \in Conn : Len(w.sendq[k]) <= sendBufferSize

\* the commands the read pump of connection k can send the coordinator
CommandsOf(k) ==
    JoinPayloads(k) \cup {Cmd(t, k, Nil, Nil, Nil) :
                             t \in {"removeClient", "startGame", "clientDisconnected"}}

\* whatever the send channels hold, the coordinator is free to take a
\* command, and its handler returns for every command a read pump or the
\* ticker can send, for the client at the head of the public queue and for
\* the event at the head of pm.GameEvents
CoordinatorFinishes ==
    /\ Commands = <<>>
    /\ \A k \in Conn :
           conn[k] = "open" =>
               /\ \A cmd \in CommandsOf(k) : Returns(CommandResults(World, cmd))
               /\ Returns({playerAction(World, k)})
    /\ Returns(CommandResults(World, Cmd("cleanUp", Nil, Nil, Nil, Nil)))
    /\ (PublicQueue # <<>> /\ PartyIdLeft) => Returns({Drained})
    /\ GameEvents # <<>> => Returns({handleGameEvent(World, Head(GameEvents))})

\* C30: SendMessage never blocks: on a send channel that holds
\* sendBufferSize frames the new frame is dropped and the channel is
\* unchanged, no channel ever holds more than sendBufferSize frames, and the
\* coordinator finishes every command whatever the channels hold, with no
\* write pump taking a frame from any of them (SpecStalled).
SendNeverBlocks == FullQueueDrops /\ QueueBounded /\ CoordinatorFinishes

\* a member whose partyJoined was dropped: its channel is full, and
\* partyJoined is neither in the channel nor written to the transport
FrameDropped ==
    \E k \in DOMAIN Members :
        /\ client[k].link = k
        /\ conn[k] = "open"
        /\ Len(sendq[k]) = sendBufferSize
        /\ wire[k].joined = {}
        /\ \A i \in 1..Len(sendq[k]) : sendq[k][i].type # "partyJoined"

\* the frames Party.broadcast and Game.broadcast send
BroadcastTypes == {"memberUpdate", "gameStarted", "gameOver"}

\* no two of the handler's calls of SendMessage put the same broadcast
\* frame on the send channel of one open connection
OncePerConn(w) ==
    \A i, j \in 1..Len(w.offered) :
        (/\ i < j
         /\ w.offered[i].frame.type \in BroadcastTypes
         /\ w.offered[i].frame = w.offered[j].frame
         /\ w.conn[w.offered[i].ch] = "open") =>
            w.offered[i].ch # w.offered[j].ch

\* C31: each broadcast (a memberUpdate of the coordinator, a gameStarted or
\* gameOver of a game) is put at most once on the send channel of any one
\* open connection, whatever joins, reconnects and disconnects came before,
\* a reconnect asked for by a connection that is a party member included.
BroadcastAtMostOnce ==
    /\ \A k \in Conn :
           conn[k] = "open" =>
               \A cmd \in CommandsOf(k) :
                   \A w \in CommandResults(World, cmd) : OncePerConn(w)
    /\ \A w \in CommandResults(World, Cmd("cleanUp", Nil, Nil, Nil, Nil)) : OncePerConn(w)
    /\ PublicQueue # <<>> /\ PartyIdLeft => OncePerConn(Drained)
    /\ \A g \in DOMAIN game :
           (game[g].state = "running" /\ game[g].commands # <<>>) =>
               OncePerConn(gameHandle([World EXCEPT !.game[g].commands = Tail(@)], g,
                                      Head(game[g].commands)).w)

\* ------------------------------------------------------------------------
\* The goroutines that touch the conn, send and game fields of one Client
\* struct: its read pump, its write pump and the coordinator.  A goroutine
\* is at the statement it executes; mu is the struct's mutex.
\* ------------------------------------------------------------------------
LockTask == {"readPump", "writePump", "Run"}

InitLocks ==
    InitWith({}, [k \in Conn |-> 0],
             [pc |-> [readPump |-> "ReadJSON", writePump |-> "send", Run |-> "select"],
              mu |-> "free", posted |-> FALSE, abandoned |-> FALSE, grafted |-> FALSE],
             <<>>)

\* everything but the goroutines
othersVars ==
    <<untilTick, conn, sent, client, sendq, wire, traced, budget, called, Commands,
      PublicQueue, GameEvents, PublicParty, Parties, Members, Abandoned, Games, party,
      game>>

\* goroutine t goes from one statement to the next
Goes(t, from, to) ==
    /\ tasks.pc[t] = from
    /\ tasks' = [tasks EXCEPT !.pc[t] = to]
    /\ UNCHANGED othersVars

\* c.mu.Lock() of goroutine t
Lock(t) ==
    /\ tasks.pc[t] = "Lock"
    /\ tasks.mu = "free"
    /\ tasks' = [tasks EXCEPT !.pc[t] = "game", !.mu = t]
    /\ UNCHANGED othersVars

\* c.mu.Unlock() of goroutine t, which then is at the statement to
Unlock(t, to) ==
    /\ tasks.pc[t] = "Unlock"
    /\ tasks' = [tasks EXCEPT !.pc[t] = to, !.mu = "free"]
    /\ UNCHANGED othersVars

\* readPump: c.conn.ReadJSON returns a playerAction frame
PumpReads == Goes("readPump", "ReadJSON", "Lock")

\* readPump: game := c.game, between Lock and Unlock
PumpGame == Goes("readPump", "game", "Unlock")

\* readPump: c.conn.ReadJSON returns an error; the deferred function runs
PumpFails == Goes("readPump", "ReadJSON", "SendCommand")

\* readPump, deferred: c.pm.SendCommand(DisconnectClient)
PumpPosts ==
    /\ tasks.pc["readPump"] = "SendCommand"
    /\ tasks' = [tasks EXCEPT !.pc["readPump"] = "Close", !.posted = TRUE]
    /\ UNCHANGED othersVars

\* readPump, deferred: c.conn.Close()
PumpCloses == Goes("readPump", "Close", "done")

\* writePump: the select evaluates c.send and waits
WriterSelects == Goes("writePump", "send", "select")

\* writePump: a message or a ping: c.conn.SetWriteDeadline and the write
WriterWrites == Goes("writePump", "select", "SetWriteDeadline")

\* writePump: the write succeeded, the loop selects again
WriterLoops == Goes("writePump", "SetWriteDeadline", "send")

\* writePump: the write failed; deferred c.conn.Close()
WriterFails == Goes("writePump", "SetWriteDeadline", "Close")

\* writePump: returned
WriterCloses == Goes("writePump", "Close", "done")

\* Run: a handler calls SendMessage on the struct:  case c.send <- msg
RunSends == Goes("Run", "select", "SendMessage")

\* Run: SendMessage has returned
RunSent == Goes("Run", "SendMessage", "select")

\* Run: StartGame or handleGameEvent sets the struct's game
RunSetsGame == Goes("Run", "select", "Lock")

\* Run: DisconnectClient clears the game and enters the struct in Abandoned
RunDisconnects ==
    /\ tasks.pc["Run"] = "select"
    /\ tasks.posted
    /\ tasks' = [tasks EXCEPT !.pc["Run"] = "Lock", !.posted = FALSE, !.abandoned = TRUE]
    /\ UNCHANGED othersVars

\* Run: client.game = ..., between Lock and Unlock
RunGame == Goes("Run", "game", "Unlock")

\* Run, reconnect:  oldClient.conn = client.conn
RunGrafts ==
    /\ tasks.pc["Run"] = "select"
    /\ tasks.abandoned
    /\ tasks' = [tasks EXCEPT !.pc["Run"] = "oldClient.conn", !.abandoned = FALSE,
                              !.grafted = TRUE]
    /\ UNCHANGED othersVars

\* Run, reconnect:  oldClient.send = client.send
RunGraftsSend == Goes("Run", "oldClient.conn", "oldClient.send")

\* Run, reconnect: on to  client.mu.Lock(); client.game = party.game
RunGrafted == Goes("Run", "oldClient.send", "Lock")

NextLocks ==
    \/ PumpReads
    \/ Lock("readPump")
    \/ PumpGame
    \/ Unlock("readPump", "ReadJSON")
    \/ PumpFails
    \/ PumpPosts
    \/ PumpCloses
    \/ WriterSelects
    \/ WriterWrites
    \/ WriterLoops
    \/ WriterFails
    \/ WriterCloses
    \/ RunSends
    \/ RunSent
    \/ RunSetsGame
    \/ RunDisconnects
    \/ Lock("Run")
    \/ RunGame
    \/ Unlock("Run", "select")
    \/ RunGrafts
    \/ RunGraftsSend
    \/ RunGrafted

SpecLocks == InitLocks /\ [][NextLocks]_vars

\* the field the statement at pos of goroutine t reads or writes
FieldAt(t, pos) ==
    CASE pos \in {"ReadJSON", "SetWriteDeadline", "Close", "oldClient.conn"} -> "conn"
      [] pos \in {"send", "SendMessage", "oldClient.send"} -> "send"
      [] pos = "game" -> "game"
      [] OTHER -> "none"

\* the statement at pos assigns to the field
WritesAt(t, pos) == pos \in {"oldClient.conn", "oldClient.send"} \/ (t = "Run" /\ pos = "game")

\* goroutine t writes a field that goroutine u reads or writes, and they do
\* not both do it under the mutex
Races(t, u) ==
    /\ t # u
    /\ FieldAt(t, tasks.pc[t]) # "none"
    /\ FieldAt(t, tasks.pc[t]) = FieldAt(u, tasks.pc[u])
    /\ WritesAt(t, tasks.pc[t])

\* every goroutine that reads or writes one of the fields holds the mutex
AccessUnderLock ==
    \A t \in LockTask : FieldAt(t, tasks.pc[t]) # "none" => tasks.mu = t

\* C32: the reads and writes of a Client's conn, send and game fields, by
\* its read pump, its write pump, SendMessage and the coordinator (the
\* reconnect graft included), are guarded by the client's mutex: in no
\* state does one goroutine write one of these fields while another reads
\* or writes it (SpecLocks).
NoRace == \A t, u \in LockTask : ~Races(t, u)

\* C33: for every inbound frame that does not decode (a malformed outer
\* frame, a payload that does not fit its type, an unknown type) the read
\* pump sends the client error{invalidRequest} and nothing else and keeps
\* reading: the loop is not left, the transport stays open and no
\* disconnect is reported.
BadFrameKeepsReading ==
    \A k \in Conn : \A f \in BadFrame :
        CanRead(k) =>
            LET r == readBad(World, k, f)
            IN /\ ~r.exits
               /\ r.w.conn[k] = "open"
               /\ r.w.offered = <<Offer(k, ErrorFrame("invalidRequest"))>>

\* C34: a successful reconnect as X sends, on the new connection, one
\* partyJoined that carries the id of the party X is a member of
\* (Members[X]), whatever partyId the join carried: none, or the id of
\* another party.
ReconnectNamesParty ==
    \A k \in Conn : \A X \in ClientID : \A pid \in PartyID \cup {Nil} :
        (X # k /\ CanReconnect(k, X)) =>
            LET w == handleAddClient(World, k, pid, X, X)
            IN /\ Cardinality(Offers(w, "partyJoined")) = 1
               /\ \A o \in Offers(w, "partyJoined") :
                      /\ o.to = X
                      /\ o.ch = k
                      /\ o.frame.party = Members[X]

\* a goroutine in Run takes the command at the head of pm.Commands
CommandTaken == Commands # <<>> /\ Commands' = Tail(Commands)

\* SpecTasks under fair scheduling: the coordinator is started, its
\* handlers return and it keeps receiving from pm.Commands
SpecTasksFair ==
    /\ SpecTasks
    /\ WF_vars(NewPartyManager)
    /\ WF_vars(\E t \in RunTask : TaskReturn(t))
    /\ WF_Commands(CommandTaken)

\* C35: whenever the read pump of a client exits on a transport read
\* error, the coordinator eventually handles a DisconnectClient for that
\* client (which enters it in Abandoned), also when pm.Commands is full at
\* the moment the pump exits (SpecTasksFair).
DisconnectEventuallyHandled ==
    \A k \in Conn : (conn[k] = "closed") ~> (k \in DOMAIN Abandoned)

\* C36: when the host is removed from a party and at least one of the
\* members left has IsConnected set, the new HostID is a member with
\* IsConnected set (SpecParty).
NewHostConnected ==
    (/\ HostRemoved
     /\ \E m \in DOMAIN party[called.party].Members : party[called.party].Members[m]) =>
        /\ party[called.party].HostID \in DOMAIN party[called.party].Members
        /\ party[called.party].Members[party[called.party].HostID]

\* the coordinator's state once it has handled the join of connection k
\* that reconnects it as X, with X's secret
ReconnectedAs(k, X) ==
    [handleAddClient(World, k, Members[X], X, X) EXCEPT !.offered = <<>>]

\* C37: after a successful reconnect as X, a leave, startGame or
\* playerAction frame read from the new connection is carried out for X
\* (the party is found through Members[X], the game through X's game
\* reference), not for the id given to the new connection; and the loss of
\* the new connection clears X's IsConnected and enters X in Abandoned.
ActsForReconnected ==
    \A k \in Conn : \A X \in ClientID :
        (X # k /\ CanReconnect(k, X)) =>
            LET w1 == ReconnectedAs(k, X)
                P == Parties[Members[X]]
                g == w1.client[X].game
            IN /\ \A w \in CommandResults(w1, Cmd("removeClient", k, Nil, Nil, Nil)) :
                      X \notin DOMAIN w.Members
               /\ (w1.party[P].HostID # X) =>
                      \E o \in Offers(handleStartGame(w1, k), "error") :
                          o.frame.code = "notPartyHost"
               /\ g # Nil =>
                      /\ playerAction(w1, k).offered = <<>>
                      /\ (w1.game[g].state = "running"
                            /\ Len(w1.game[g].commands) < gameBufferSize) =>
                             playerAction(w1, k).game[g].commands =
                                 Append(w1.game[g].commands, GameCmd("playerAction", X))
               /\ \A w \in CommandResults(readBad(w1, k, "transportError").w,
                                          Cmd("clientDisconnected", k, Nil, Nil, Nil)) :
                      /\ X \in DOMAIN w.Abandoned
                      /\ ~w.party[P].Members[X]

\* C38: between two commands of the coordinator, every member of a party
\* with IsConnected cleared has an entry in Abandoned, so that a later
\* sweep frees its seat; a reconnect attempt with a wrong secret does not
\* leave a disconnected member in its seat with no entry.
DisconnectedIsAbandoned ==
    \A pid \in DOMAIN Parties :
        \A m \in DOMAIN PartyOf(pid).Members :
            ~PartyOf(pid).Members[m] => m \in DOMAIN Abandoned

\* C39: whenever the struct of a client c has a game, c is in Members, the
\* party Members[c] has that game as its game and c is one of the game's
\* clients; a client that leaves its party while a game runs has no game
\* any more and is not counted by the game.
GameRefMatchesParty ==
    \A c \in ClientID :
        client[c].game # Nil =>
            /\ c \in DOMAIN Members
            /\ Members[c] \in DOMAIN Parties
            /\ PartyOf(Members[c]).game = client[c].game
            /\ c \in game[client[c].game].Clients

\* C40: a StartGame from the host of a party whose game is running creates
\* no second game: the party's game reference is not overwritten while
\* that game runs, and at most one game that has not ended belongs to any
\* one party.
OneGamePerParty ==
    \A c \in Conn :
        (/\ CanRead(c)
         /\ c \in DOMAIN Members
         /\ Members[c] \in DOMAIN Parties
         /\ PartyOf(Members[c]).HostID = c
         /\ InGame(PartyOf(Members[c]))) =>
            LET w == handleStartGame(World, c)
                P == Parties[Members[c]]
            IN /\ DOMAIN w.game = DOMAIN game
               /\ w.party[P].game = party[P].game
               /\ w.Games = Games

====
